---- MODULE Spec2Model ----
(***************************************************************************)
(* A model of src/code/article_learner.py: the driver article_trainers,    *)
(* the trainer train_model and the importance extractor                    *)
(* variable_importance, with the library calls they make                   *)
(* (train_test_split, GridSearchCV, np.argpartition) modelled by their     *)
(* documented behaviour.                                                   *)
(*                                                                         *)
(* Arrays are functions over 0..n-1, as Python indexes them.               *)
(***************************************************************************)
EXTENDS Integers, Sequences, FiniteSets, TLC

VARIABLES
    pc,       \* position of the program: "start", "main", "t20".."t32", "exit", "crashed"
    db,       \* the stored articles ArticleDB loads: their row, feature and class counts
    data,     \* the ArticleDB object built at line 51 (NoData before)
    cv,       \* number of folds GridSearchCV uses when none is given (library default)
    calls,    \* the train_model calls the caller makes, in order (lines 52-54)
    call_no,  \* number of train_model calls started so far
    frame,    \* the local variables of the running train_model call
    stdout,   \* the lines printed so far
    exc       \* the operation whose exception ended the process ("none" while running)

vars == <<pc, db, data, cv, calls, call_no, frame, stdout, exc>>

(***************************************************************************)
(* Bounds of the model and constants of the program.                       *)
(***************************************************************************)
\* the number of features selected and printed: the 10 of lines 30 and 32
TopK == 10
\* feature counts run from TopK - 1 to TopK + MaxExtra
MaxExtra == 1
\* row count of the dataset in the whole-program specifications
FewRows == 4
\* row counts run from 0 to MaxRows in the specification of lines 20-24
MaxRows == 11
\* label classes run from 2 to MaxClasses where coefficient matrices are drawn
MaxClasses == 3

(***************************************************************************)
(* Python values.                                                          *)
(***************************************************************************)
\* the value of a call that falls off the end of a function (line 43)
None == [tag |-> "None"]
\* an attribute the object does not have: hasattr(...) is False
Absent == [tag |-> "absent"]
\* a local variable not yet bound
Unbound == [tag |-> "unbound"]
\* a one-dimensional ndarray; a is a function over 0..n-1
Vec(a) == [tag |-> "ndarray", ndim |-> 1, a |-> a]
\* a two-dimensional ndarray; a is a function over 0..r-1 of functions over 0..n-1
Mat(a) == [tag |-> "ndarray", ndim |-> 2, a |-> a]

IsVec(x) == x.tag = "ndarray" /\ x.ndim = 1
IsMat(x) == x.tag = "ndarray" /\ x.ndim = 2
Size(x) == Cardinality(DOMAIN x.a)
hasattr(value) == value.tag # "absent"

(***************************************************************************)
(* The dataset (ArticleDB, line 51): X and y by their shape, and the       *)
(* column-index-to-name mapping.                                           *)
(***************************************************************************)
NoData == [tag |-> "nodata"]
ColumnName(i) == <<"feature", i>>
ArticleDB(domain_endings, author, n_rows, n_features, n_classes) ==
    [tag |-> "ArticleDB",
     domain_endings |-> domain_endings,
     author |-> author,
     X |-> [rows |-> n_rows, cols |-> n_features],
     y |-> [rows |-> n_rows, classes |-> n_classes],
     column_number |-> [i \in 0..(n_features - 1) |-> ColumnName(i)]]

FeatureCounts == (TopK - 1)..(TopK + MaxExtra)

(***************************************************************************)
(* Parameter grids (lines 52-54) and the candidates GridSearchCV builds    *)
(* from one: every assignment of one listed value to every listed name.    *)
(***************************************************************************)
Range(s) == {s[i] : i \in DOMAIN s}
EmptyGrid == <<>>
AlphaGrid == "alpha" :> <<"0.1", "1.0", "10.0", "100.0">>
CGrid == "C" :> <<"0.01", "0.1", "1", "10", "100">>
ParameterGrid(param_grid) ==
    {p \in [DOMAIN param_grid -> UNION {Range(param_grid[k]) : k \in DOMAIN param_grid}] :
        \A k \in DOMAIN param_grid : p[k] \in Range(param_grid[k])}

DriverCalls ==
    << [learner |-> "DecisionTreeClassifier", param_grid |-> EmptyGrid],
       [learner |-> "MultinomialNB", param_grid |-> AlphaGrid],
       [learner |-> "LogisticRegression", param_grid |-> CGrid] >>

(***************************************************************************)
(* Fitted estimators.  What a fit learns is decided by the library and the *)
(* data; the model draws it from small families.  A fitted decision tree   *)
(* exposes feature_importances_, a vector with one non-negative entry per  *)
(* feature.  A fitted MultinomialNB or LogisticRegression exposes coef_, a *)
(* matrix with one row for two classes and one row per class otherwise, in *)
(* the library versions that have sklearn.linear_model.logistic (line 11). *)
(* KNeighborsClassifier exposes neither attribute.                         *)
(***************************************************************************)
Pattern(n, a, m, c) == [i \in 0..(n - 1) |-> ((a * i + 1) % m) - c]
TreeImportances(n) == {Pattern(n, 3, 13, 0), Pattern(n, 1, 3, 0)}
CoefRows(n_classes) == IF n_classes = 2 THEN 1 ELSE n_classes
CoefMatrix(n, n_classes, c) ==
    [r \in 0..(CoefRows(n_classes) - 1) |-> Pattern(n, 3, 13, c + r)]

Estimator(class, params, coef_, feature_importances_) ==
    [class |-> class, params |-> params,
     coef_ |-> coef_, feature_importances_ |-> feature_importances_]

\* the estimators a fit of class on the dataset d can end with
Fitted(class, params, d) ==
    LET n == d.X.cols
        k == d.y.classes
    IN  CASE class = "DecisionTreeClassifier" ->
               {Estimator(class, params, Absent, Vec(v)) : v \in TreeImportances(n)}
          [] class = "MultinomialNB" ->
               {Estimator(class, params, Mat(CoefMatrix(n, k, 20)), Absent)}
          [] class = "LogisticRegression" ->
               {Estimator(class, params, Mat(CoefMatrix(n, k, 6)), Absent)}
          [] OTHER ->
               {Estimator(class, params, Absent, Absent)}

(***************************************************************************)
(* variable_importance (lines 39-43).                                      *)
(***************************************************************************)
\* a variant that probes feature_importances_ first
variable_importance_fi_first(estimator) ==
    IF hasattr(estimator.feature_importances_) THEN estimator.feature_importances_
    ELSE IF hasattr(estimator.coef_) THEN estimator.coef_
    ELSE None

variable_importance(estimator) ==
    IF hasattr(estimator.coef_) THEN estimator.coef_
    ELSE IF hasattr(estimator.feature_importances_) THEN estimator.feature_importances_
    ELSE None

(***************************************************************************)
(* repr(learner)[:repr(learner).find('(')] (line 25), on token sequences.  *)
(***************************************************************************)
repr(learner) == <<learner.class, "(", learner.args, ")">>
find(s, tok) ==
    IF \E i \in 1..Len(s) : s[i] = tok
    THEN (CHOOSE i \in 1..Len(s) : s[i] = tok /\ \A j \in 1..(i - 1) : s[j] # tok) - 1
    ELSE -1
\* s[:k] of Python: a negative k counts from the end
SliceTo(s, k) == SubSeq(s, 1, IF k < 0 THEN Len(s) + k ELSE k)

(***************************************************************************)
(* train_test_split(X, y, test_size=0.2) (line 22): the test partition     *)
(* gets ceil(0.2 * n) rows drawn at random, the train partition the rest.  *)
(***************************************************************************)
\* a variant with the two sizes swapped: test_size=0.8
TestSizeSwapped(n) == n - (2 * n + 9) \div 10

TestSize(n) == (2 * n + 9) \div 10
Rows(X) == 0..(X.rows - 1)
Splits(X) ==
    {[train |-> Rows(X) \ t, test |-> t] :
        t \in {t \in SUBSET Rows(X) : Cardinality(t) = TestSize(X.rows)}}

(***************************************************************************)
(* np.argpartition(var_imp, -10)[-10:] (line 30) on a vector v: TopK       *)
(* distinct columns, the first of which holds the TopK-th largest value;   *)
(* no column left out holds more than that value.  The order of the other  *)
(* entries is not defined by the library, so an entry is decided when the  *)
(* loop reads it: read is the set of entries already read.                 *)
(***************************************************************************)
AtLeast(v, x) == {i \in DOMAIN v : v[i] >= x}
Above(v, x) == {i \in DOMAIN v : v[i] > x}
\* the TopK-th largest value of v
KthValue(v) ==
    CHOOSE x \in Range(v) :
        Cardinality(Above(v, x)) < TopK /\ Cardinality(AtLeast(v, x)) >= TopK
\* a variant that partitions by magnitude: np.argpartition(np.abs(var_imp), -10)
Magnitude(v) == [i \in DOMAIN v |-> IF v[i] < 0 THEN -v[i] ELSE v[i]]
NextEntriesByMagnitude(v, read) ==
    {c \in AtLeast(Magnitude(v), KthValue(Magnitude(v))) \ read :
        /\ read = {} => Magnitude(v)[c] = KthValue(Magnitude(v))
        /\ Cardinality(Above(Magnitude(v), KthValue(Magnitude(v))) \ (read \cup {c}))
               <= TopK - Cardinality(read) - 1}

\* the columns the next entry of the result can be, given the entries read
NextEntries(v, read) ==
    {c \in AtLeast(v, KthValue(v)) \ read :
        /\ read = {} => v[c] = KthValue(v)
        /\ Cardinality(Above(v, KthValue(v)) \ (read \cup {c}))
               <= TopK - Cardinality(read) - 1}

(***************************************************************************)
(* The frame of a train_model call: its parameters and local variables.    *)
(* rank is -1 until the loop of line 32 starts.                            *)
(***************************************************************************)
NoFrame == [tag |-> "noframe"]
NewFrame(call) ==
    [tag |-> "train_model",
     learner |-> [class |-> call.learner, instance |-> FALSE],
     param_grid |-> call.param_grid,
     X |-> Unbound, y |-> Unbound,
     X_train |-> Unbound, X_test |-> Unbound,
     y_train |-> Unbound, y_test |-> Unbound,
     model |-> Unbound, accuracy |-> Unbound, learner_repr |-> Unbound,
     var_imp |-> Unbound, top_10_vars |-> Unbound,
     rank |-> -1,
     feature_col |-> Unbound, feature_name |-> Unbound, feature_score |-> Unbound]

\* a variant in which the caller catches the exception and goes on
RaiseAndCatch(operation) ==
    /\ pc' = "main"
    /\ exc' = operation

\* an uncaught exception: nothing in the file catches one, the process ends
Raise(operation) ==
    /\ pc' = "crashed"
    /\ exc' = operation

(***************************************************************************)
(* article_trainers (lines 46-57).                                         *)
(***************************************************************************)
\* line 51: articles = ArticleDB(domain_endings=False, author=False)
Construct ==
    /\ pc = "start"
    /\ data' = ArticleDB(FALSE, FALSE, db.rows, db.cols, db.classes)
    /\ pc' = "main"
    /\ UNCHANGED <<db, cv, calls, call_no, frame, stdout, exc>>

\* lines 52-54: the next train_model call, made when the one before returned
Call ==
    /\ pc = "main"
    /\ call_no < Len(calls)
    /\ call_no' = call_no + 1
    /\ frame' = NewFrame(calls[call_no + 1])
    /\ pc' = "t20"
    /\ UNCHANGED <<db, data, cv, calls, stdout, exc>>

\* the end of article_trainers and of the script (line 57)
Exit ==
    /\ pc = "main"
    /\ call_no = Len(calls)
    /\ pc' = "exit"
    /\ UNCHANGED <<db, data, cv, calls, call_no, frame, stdout, exc>>

(***************************************************************************)
(* train_model (lines 16-36).                                              *)
(***************************************************************************)
\* lines 20-21: learner = learner(); X, y = data.X, data.y
Instantiate ==
    /\ pc = "t20"
    /\ frame' = [frame EXCEPT !.learner = [class |-> frame.learner.class,
                                           instance |-> TRUE, args |-> "defaults"],
                              !.X = data.X,
                              !.y = data.y]
    /\ pc' = "t22"
    /\ UNCHANGED <<db, data, cv, calls, call_no, stdout, exc>>

\* a variant that rebinds data.X to the train partition
SplitInPlace ==
    /\ pc = "t22"
    /\ IF frame.X.rows - TestSize(frame.X.rows) = 0
       THEN /\ Raise("train_test_split")
            /\ UNCHANGED <<frame, data>>
       ELSE /\ \E s \in Splits(frame.X) :
                 /\ frame' = [frame EXCEPT !.X_train = s.train, !.X_test = s.test,
                                           !.y_train = s.train, !.y_test = s.test]
                 /\ data' = [data EXCEPT !.X.rows = Cardinality(s.train)]
            /\ pc' = "t23"
            /\ UNCHANGED exc
    /\ UNCHANGED <<db, cv, calls, call_no, stdout>>

\* line 22: X_train, X_test, y_train, y_test = train_test_split(X, y, test_size=0.2)
\* y is split along the same rows as X; an empty train partition is refused
Split ==
    /\ pc = "t22"
    /\ IF frame.X.rows - TestSize(frame.X.rows) = 0
       THEN /\ Raise("train_test_split")
            /\ UNCHANGED frame
       ELSE /\ \E s \in Splits(frame.X) :
                 frame' = [frame EXCEPT !.X_train = s.train, !.X_test = s.test,
                                        !.y_train = s.train, !.y_test = s.test]
            /\ pc' = "t23"
            /\ UNCHANGED exc
    /\ UNCHANGED <<db, data, cv, calls, call_no, stdout>>

\* a variant without the last fit: GridSearchCV(..., refit=False)
NFitsWithoutRefit(candidates, folds) == Cardinality(candidates) * folds

\* the fits one search runs: each candidate once per fold, then the best
\* candidate once more on the whole train partition
NFits(candidates, folds) == Cardinality(candidates) * folds + 1

\* line 23: model = GridSearchCV(learner, param_grid).fit(X_train, y_train)
\* every candidate of the grid is fitted once per fold, the best one is
\* fitted once more on the whole train partition; fewer rows than folds
\* is refused
Fit ==
    /\ pc = "t23"
    /\ IF Cardinality(frame.X_train) < cv
       THEN /\ Raise("GridSearchCV.fit")
            /\ UNCHANGED frame
       ELSE /\ \E best \in ParameterGrid(frame.param_grid) :
               \E est \in Fitted(frame.learner.class, best, data) :
                 frame' = [frame EXCEPT !.model =
                     [tag |-> "GridSearchCV",
                      candidates |-> ParameterGrid(frame.param_grid),
                      folds |-> cv,
                      n_fits |-> NFits(ParameterGrid(frame.param_grid), cv),
                      fitted_X |-> frame.X_train,
                      fitted_y |-> frame.y_train,
                      best_params_ |-> best,
                      best_score_ |-> [mean_score_of |-> best],
                      best_estimator_ |-> est]]
            /\ pc' = "t24"
            /\ UNCHANGED exc
    /\ UNCHANGED <<db, data, cv, calls, call_no, stdout>>

\* line 24: accuracy = model.score(X_test, y_test)
Score ==
    /\ pc = "t24"
    /\ frame' = [frame EXCEPT !.accuracy =
                     [tag |-> "float", accuracy_of |-> frame.model.best_params_,
                      scored_X |-> frame.X_test,
                      scored_y |-> frame.y_test]]
    /\ pc' = "t25"
    /\ UNCHANGED <<db, data, cv, calls, call_no, stdout, exc>>

\* lines 25-28: the header line and the two accuracy lines
Report ==
    /\ pc = "t25"
    /\ LET r == SliceTo(repr(frame.learner), find(repr(frame.learner), "("))
       IN  /\ frame' = [frame EXCEPT !.learner_repr = [tag |-> "str", tokens |-> r]]
           /\ stdout' = stdout \o
                << [kind |-> "header", learner |-> r,
                    parameters |-> frame.model.best_params_],
                   [kind |-> "val-accuracy", value |-> frame.model.best_score_],
                   [kind |-> "test-accuracy", value |-> frame.accuracy] >>
    /\ pc' = "t29"
    /\ UNCHANGED <<db, data, cv, calls, call_no, exc>>

\* line 29: var_imp = variable_importance(model.best_estimator_)
VarImp ==
    /\ pc = "t29"
    /\ frame' = [frame EXCEPT !.var_imp = variable_importance(frame.model.best_estimator_)]
    /\ pc' = "t30"
    /\ UNCHANGED <<db, data, cv, calls, call_no, stdout, exc>>

\* line 30: top_10_vars = np.argpartition(var_imp, -10)[-10:]
\* None, or fewer than 10 entries along the last axis, is refused.  For a
\* matrix the partition runs along each row, and [-10:] keeps its last 10
\* rows: all of them when there are at most 10.
ArgPartition ==
    /\ pc = "t30"
    /\ IF frame.var_imp.tag = "None"
       THEN /\ Raise("np.argpartition")
            /\ UNCHANGED frame
       ELSE IF IsVec(frame.var_imp)
       THEN IF Size(frame.var_imp) < TopK
            THEN /\ Raise("np.argpartition")
                 /\ UNCHANGED frame
            ELSE /\ frame' = [frame EXCEPT !.top_10_vars =
                                  [tag |-> "ndarray", ndim |-> 1, read |-> {}]]
                 /\ pc' = "t31"
                 /\ UNCHANGED exc
       ELSE IF Cardinality(DOMAIN frame.var_imp.a[0]) < TopK
            THEN /\ Raise("np.argpartition")
                 /\ UNCHANGED frame
            ELSE /\ frame' = [frame EXCEPT !.top_10_vars =
                                  [tag |-> "ndarray", ndim |-> 2,
                                   rows |-> IF Size(frame.var_imp) < TopK
                                            THEN Size(frame.var_imp) ELSE TopK,
                                   cols |-> Cardinality(DOMAIN frame.var_imp.a[0])]]
                 /\ pc' = "t31"
                 /\ UNCHANGED exc
    /\ UNCHANGED <<db, data, cv, calls, call_no, stdout>>

\* line 31: print('\tmost important features:')
PrintHeading ==
    /\ pc = "t31"
    /\ stdout' = Append(stdout, [kind |-> "heading"])
    /\ pc' = "t32"
    /\ UNCHANGED <<db, data, cv, calls, call_no, frame, exc>>

\* lines 32-36: one iteration of the loop.  The printed line carries rank + 1
\* and the values feature_name and feature_score hold when it is printed;
\* stdout keeps the line's kind and rank.
\* When top_10_vars is a matrix, top_10_vars[rank] is a whole row of column
\* indices: a mapping or list column_number refuses it at line 34, and an
\* array column_number accepts it but var_imp[feature_col] then indexes the
\* rows of var_imp, of which there are fewer than columns, at line 35.
\* Either way the first iteration raises before it prints.
Iterate ==
    /\ pc = "t32"
    /\ frame.rank + 1 < TopK
    /\ IF frame.top_10_vars.ndim = 1
       THEN /\ \E c \in NextEntries(frame.var_imp.a, frame.top_10_vars.read) :
                 frame' = [frame EXCEPT !.rank = frame.rank + 1,
                                        !.top_10_vars.read = frame.top_10_vars.read \cup {c},
                                        !.feature_col = [tag |-> "int", value |-> c],
                                        !.feature_name = data.column_number[c],
                                        !.feature_score = frame.var_imp.a[c]]
            /\ stdout' = Append(stdout, [kind |-> "feature", rank |-> frame.rank + 2])
            /\ UNCHANGED <<pc, exc>>
       ELSE /\ frame' = [frame EXCEPT !.rank = frame.rank + 1,
                                      !.feature_col =
                                          [tag |-> "ndarray", ndim |-> 1,
                                           row |-> frame.rank + 1,
                                           length |-> frame.top_10_vars.cols]]
            /\ Raise("feature lookup")
            /\ UNCHANGED stdout
    /\ UNCHANGED <<db, data, cv, calls, call_no>>

\* the loop is over after rank 9: train_model returns and its frame is gone
Return ==
    /\ pc = "t32"
    /\ frame.rank = TopK - 1
    /\ frame' = NoFrame
    /\ pc' = "main"
    /\ UNCHANGED <<db, data, cv, calls, call_no, stdout, exc>>

(***************************************************************************)
(* Specifications.                                                         *)
(***************************************************************************)
\* GridSearchCV's default number of folds: 3 in the library versions before
\* 0.22, 5 from then on
CvDefaults == {3, 5}

Databases(rows, cols, classes) == [rows : rows, cols : cols, classes : classes]

InitWith(dbs, callLists) ==
    /\ pc = "start"
    /\ db \in dbs
    /\ data = NoData
    /\ cv \in CvDefaults
    /\ calls \in callLists
    /\ call_no = 0
    /\ frame = NoFrame
    /\ stdout = <<>>
    /\ exc = "none"

\* a caller that makes a list of train_model calls one after the other, as
\* article_trainers does: its own list (lines 52-54), one call of any of
\* four learner classes, or a KNeighborsClassifier call and one more
KNeighborsCall == [learner |-> "KNeighborsClassifier", param_grid |-> EmptyGrid]
TrainCalls == Range(DriverCalls) \cup {KNeighborsCall}
CallLists ==
    {DriverCalls} \cup {<<a>> : a \in TrainCalls} \cup {<<KNeighborsCall, a>> : a \in TrainCalls}

Init == InitWith(Databases({FewRows}, FeatureCounts, {2}), CallLists)

Next ==
    \/ Construct \/ Call \/ Exit
    \/ Instantiate \/ Split \/ Fit \/ Score \/ Report
    \/ VarImp \/ ArgPartition \/ PrintHeading \/ Iterate \/ Return

Spec == Init /\ [][Next]_vars

\* lines 20-24 of one train_model call, on datasets of 1 to MaxRows rows
InitSplit ==
    InitWith(Databases(1..MaxRows, {TopK}, {2}), {<<c>> : c \in Range(DriverCalls)})
NextSplit == Construct \/ Call \/ Instantiate \/ Split \/ Fit \/ Score
SpecSplit == InitSplit /\ [][NextSplit]_vars

\* lines 29-36 of a train_model call whose search ended with any estimator:
\* either attribute absent or present, coef_ a vector or a matrix
Coefs(n) == {Pattern(n, a, m, c) : a \in {0, 1, 3}, m \in {3, 13}, c \in {0, 6}}
Estimators(n, k) ==
    {Estimator("Estimator", EmptyGrid, Vec(v), Absent) : v \in Coefs(n)}
    \cup {Estimator("Estimator", EmptyGrid, Absent, Vec(v)) : v \in TreeImportances(n)}
    \cup {Estimator("Estimator", EmptyGrid, Vec(Pattern(n, 3, 13, 6)), Vec(Pattern(n, 1, 3, 0))),
          Estimator("Estimator", EmptyGrid, Mat(CoefMatrix(n, k, 6)), Vec(Pattern(n, 1, 3, 0))),
          Estimator("Estimator", EmptyGrid, Mat(CoefMatrix(n, k, 6)), Absent),
          Estimator("Estimator", EmptyGrid, Absent, Absent)}

\* the frame of train_model(data, Estimator, {}) when line 29 is reached
FrameAt29(d, est) ==
    LET test == 0..(TestSize(d.X.rows) - 1)
        train == Rows(d.X) \ test
    IN  [NewFrame([learner |-> "Estimator", param_grid |-> EmptyGrid]) EXCEPT
            !.learner = [class |-> "Estimator", instance |-> TRUE, args |-> "defaults"],
            !.X = d.X, !.y = d.y,
            !.X_train = train, !.X_test = test, !.y_train = train, !.y_test = test,
            !.model = [tag |-> "GridSearchCV",
                       candidates |-> ParameterGrid(EmptyGrid),
                       folds |-> 3,
                       n_fits |-> NFits(ParameterGrid(EmptyGrid), 3),
                       fitted_X |-> train, fitted_y |-> train,
                       best_params_ |-> EmptyGrid,
                       best_score_ |-> [mean_score_of |-> EmptyGrid],
                       best_estimator_ |-> est],
            !.accuracy = [tag |-> "float", accuracy_of |-> EmptyGrid, scored_X |-> test, scored_y |-> test],
            !.learner_repr = [tag |-> "str", tokens |-> <<"Estimator">>]]
InitTop10 ==
    /\ pc = "t29"
    /\ db \in Databases({FewRows}, FeatureCounts, 2..MaxClasses)
    /\ data = ArticleDB(FALSE, FALSE, db.rows, db.cols, db.classes)
    /\ cv = 3
    /\ calls = << [learner |-> "Estimator", param_grid |-> EmptyGrid] >>
    /\ call_no = 1
    /\ \E est \in Estimators(db.cols, db.classes) : frame = FrameAt29(data, est)
    /\ stdout = << [kind |-> "header", learner |-> <<"Estimator">>, parameters |-> EmptyGrid],
                   [kind |-> "val-accuracy", value |-> frame.model.best_score_],
                   [kind |-> "test-accuracy", value |-> frame.accuracy] >>
    /\ exc = "none"
NextTop10 == VarImp \/ ArgPartition \/ PrintHeading \/ Iterate
SpecTop10 == InitTop10 /\ [][NextTop10]_vars

(***************************************************************************)
(* Properties.                                                             *)
(***************************************************************************)
Running == frame.tag = "train_model"
\* line 29 has been executed by the running call
PastLine29 == Running /\ frame.var_imp.tag # "unbound"
\* the loop of line 32 has finished its ten iterations
LoopDone == Running /\ pc = "t32" /\ frame.rank = TopK - 1
BestEstimator == frame.model.best_estimator_

\* C1: variable_importance returns coef_ unchanged whenever the estimator has
\* it, also when it has feature_importances_ too; otherwise it returns
\* feature_importances_ unchanged when the estimator has that; otherwise it
\* returns None and makes no vector up.
C1_CoefElseFeatureImportancesElseNone ==
    PastLine29 =>
        /\ BestEstimator.coef_ # Absent => frame.var_imp = BestEstimator.coef_
        /\ (BestEstimator.coef_ = Absent /\ BestEstimator.feature_importances_ # Absent)
               => frame.var_imp = BestEstimator.feature_importances_
        /\ (BestEstimator.coef_ = Absent /\ BestEstimator.feature_importances_ = Absent)
               => frame.var_imp = None
\* line 29 has returned coef_ for an estimator that has both attributes
C1_Witness ==
    /\ PastLine29
    /\ BestEstimator.coef_ # Absent
    /\ BestEstimator.feature_importances_ # Absent
    /\ frame.var_imp = BestEstimator.coef_
    /\ frame.var_imp # BestEstimator.feature_importances_

\* an iteration of the loop of line 32 that printed a feature line
PrintsFeature ==
    /\ Running /\ pc = "t32" /\ pc' = "t32"
    /\ frame'.rank = frame.rank + 1

\* C2: for an importance vector with at least 10 features the selection is 10
\* distinct columns, listed in descending score order (rank 1 has the highest
\* score), ties broken by ascending column index.
C2_TenDistinctColumnsInDescendingOrder ==
    /\ [](LoopDone => Cardinality(frame.top_10_vars.read) = TopK)
    /\ [][PrintsFeature =>
            /\ frame'.feature_col.value \notin frame.top_10_vars.read
            /\ frame.rank >= 0 =>
                  \/ frame'.feature_score < frame.feature_score
                  \/ /\ frame'.feature_score = frame.feature_score
                     /\ frame'.feature_col.value > frame.feature_col.value]_vars
\* what does hold of the selection: ten distinct columns, none read twice
C2_TenDistinctColumns ==
    /\ [](LoopDone => Cardinality(frame.top_10_vars.read) = TopK)
    /\ [][PrintsFeature => frame'.feature_col.value \notin frame.top_10_vars.read]_vars

\* C3: the selection goes by the signed value, with no absolute value taken:
\* for an importance vector with at least 10 features no column left out
\* holds more than a selected column, and no column is selected that has 10
\* columns with larger signed values.
C3_SelectsBySignedValue ==
    (Running /\ pc = "t32" /\ IsVec(frame.var_imp)) =>
        LET v == frame.var_imp.a
            selected == frame.top_10_vars.read
        IN  /\ \A s \in selected : Cardinality({i \in DOMAIN v : v[i] > v[s]}) < TopK
            /\ frame.rank = TopK - 1 =>
                  /\ Cardinality(selected) = TopK
                  /\ \A c \in DOMAIN v \ selected : \A s \in selected : v[c] <= v[s]
\* the ten are selected and a negative entry whose magnitude no selected
\* entry exceeds is left out
C3_Witness ==
    /\ LoopDone
    /\ IsVec(frame.var_imp)
    /\ \E c \in DOMAIN frame.var_imp.a \ frame.top_10_vars.read :
          /\ frame.var_imp.a[c] < 0
          /\ \A s \in frame.top_10_vars.read :
                /\ frame.var_imp.a[s] <= -frame.var_imp.a[c]
                /\ -frame.var_imp.a[s] <= -frame.var_imp.a[c]

\* the script's own call list, on a dataset that every fit and every
\* selection accepts: at least 10 features, at least as many train rows as folds
DriverOnGoodData ==
    /\ calls = DriverCalls
    /\ db.cols >= TopK
    /\ cv <= db.rows - TestSize(db.rows)
Ended == pc \in {"exit", "crashed"}

\* C4: article_trainers builds one dataset, with domain_endings and author
\* disabled, then calls train_model three times, in the order decision tree,
\* naive Bayes, logistic regression, each call after the one before returned,
\* and the program then ends normally.
C4_ThreeCallsThenNormalExit ==
    (DriverOnGoodData /\ Ended) =>
        /\ pc = "exit"
        /\ call_no = 3
        /\ data = ArticleDB(FALSE, FALSE, db.rows, db.cols, db.classes)

\* the k-th block of stdout: header, val-accuracy, test-accuracy, heading and
\* the feature lines of ranks 1 to 10, in this order
BlockLines == 4 + TopK
WholeBlock(k) ==
    LET at == (k - 1) * BlockLines
    IN  /\ Len(stdout) >= at + BlockLines
        /\ stdout[at + 1].kind = "header"
        /\ stdout[at + 1].learner = <<calls[k].learner>>
        /\ stdout[at + 1].parameters \in ParameterGrid(calls[k].param_grid)
        /\ stdout[at + 2].kind = "val-accuracy"
        /\ stdout[at + 3].kind = "test-accuracy"
        /\ stdout[at + 4].kind = "heading"
        /\ \A r \in 1..TopK :
              /\ stdout[at + 4 + r].kind = "feature"
              /\ stdout[at + 4 + r].rank = r

\* C5: every run that completes prints header, val-accuracy, test-accuracy,
\* heading and ten feature lines of ranks 1 to 10, in this order, and the
\* script prints one such block for each of its three classifiers.
C5_OneWholeBlockPerClassifier ==
    (DriverOnGoodData /\ Ended) =>
        /\ Len(stdout) = 3 * BlockLines
        /\ \A k \in 1..3 : WholeBlock(k)
\* what does hold: the runs that returned each printed one whole block
C5_ReturnedRunsPrintedWholeBlocks ==
    pc \in {"main", "exit"} =>
        /\ Len(stdout) = call_no * BlockLines
        /\ \A k \in 1..call_no : WholeBlock(k)

\* the search of the running call ended with an estimator that has neither
\* coef_ nor feature_importances_, and line 29 has been executed
NeitherAttribute ==
    /\ PastLine29
    /\ BestEstimator.coef_ = Absent
    /\ BestEstimator.feature_importances_ = Absent

\* C6: when the best estimator has neither attribute the importance step
\* fails: no heading or feature line follows the test-accuracy line, the
\* exception is caught nowhere and ends the process, and no later call of the
\* caller is started.
C6_NoImportanceAttributeEndsTheProcess ==
    /\ []((NeitherAttribute /\ pc # "t30") =>
             /\ pc = "crashed"
             /\ exc = "np.argpartition"
             /\ stdout[Len(stdout)].kind = "test-accuracy"
             /\ frame.learner.class = calls[call_no].learner)
    /\ [][pc # "crashed"]_vars
\* the first of two calls has failed this way
C6_Witness ==
    /\ NeitherAttribute
    /\ pc = "crashed"
    /\ call_no = 1
    /\ Len(calls) = 2

\* the partitions of line 22 are bound
SplitDone ==
    /\ Running
    /\ \/ pc \in {"t23", "t24", "t25"}
       \/ pc = "crashed" /\ exc = "GridSearchCV.fit"

\* C7: the split of a dataset of N rows gives a train and a test partition
\* that are disjoint and cover the N rows, the test partition has 0.2 * N rows
\* within rounding and the train partition the rest; the search is fitted on
\* the train partition and the accuracy is computed on the test partition.
C7_SplitIsATwentyPercentPartition ==
    SplitDone =>
        LET N == data.X.rows
        IN  /\ frame.X_train \cap frame.X_test = {}
            /\ frame.X_train \cup frame.X_test = 0..(N - 1)
            /\ 5 * Cardinality(frame.X_test) - N < 5
            /\ N - 5 * Cardinality(frame.X_test) < 5
            /\ Cardinality(frame.X_train) = N - Cardinality(frame.X_test)
            /\ frame.y_train = frame.X_train
            /\ frame.y_test = frame.X_test
            /\ pc \in {"t24", "t25"} =>
                  /\ frame.model.fitted_X = frame.X_train
                  /\ frame.model.fitted_y = frame.y_train
                  /\ frame.model.fitted_X \cap frame.X_test = {}
            /\ pc = "t25" =>
                  /\ frame.accuracy.scored_X = frame.X_test
                  /\ frame.accuracy.scored_y = frame.y_test
                  /\ frame.accuracy.scored_X \cap frame.X_train = {}
\* 11 rows were split 8 to 3, fitted and scored
C7_Witness ==
    /\ SplitDone
    /\ pc = "t25"
    /\ data.X.rows = 11
    /\ Cardinality(frame.X_test) = 3
    /\ Cardinality(frame.X_train) = 8

\* the running call was given the empty grid and its search has been fitted
EmptyGridFitted ==
    /\ Running
    /\ frame.param_grid = EmptyGrid
    /\ frame.model.tag = "GridSearchCV"

\* C8 as amended: with the empty grid the search has exactly one candidate,
\* the defaults, and fits it once per fold and once more on the whole train
\* partition; the best parameters, also in the header line, are the empty set.
C8_EmptyGridOneCandidateFittedPerFoldAndOnceMore ==
    EmptyGridFitted =>
        /\ frame.model.candidates = {EmptyGrid}
        /\ frame.model.n_fits = frame.model.folds + 1
        /\ frame.model.best_params_ = EmptyGrid
        /\ frame.model.best_estimator_.params = EmptyGrid
        /\ frame.learner_repr.tag = "str" =>
              LET headers == {i \in 1..Len(stdout) : stdout[i].kind = "header"}
                  last == CHOOSE i \in headers : \A j \in headers : j <= i
              IN  /\ stdout[last].learner = frame.learner_repr.tokens
                  /\ stdout[last].parameters = EmptyGrid
\* C8: with the empty grid the search has exactly one candidate, the
\* defaults, fits it exactly once and reports the empty parameter set.
C8_EmptyGridOneCandidateFittedOnce ==
    EmptyGridFitted =>
        /\ frame.model.candidates = {EmptyGrid}
        /\ frame.model.n_fits = 1
        /\ frame.model.best_params_ = EmptyGrid
\* the decision tree run of the script has reported its search
C8_Witness ==
    /\ EmptyGridFitted
    /\ calls = DriverCalls
    /\ call_no = 1
    /\ pc = "t29"
    /\ stdout[1].parameters = EmptyGrid

\* C9: train_model only reads the dataset: whatever calls have returned or
\* failed, X, y and the column names are as constructed; a call starts with
\* nothing but its parameters bound, and no frame outlives its call.
C9_DatasetIsReadOnly ==
    /\ data # NoData => data = ArticleDB(FALSE, FALSE, db.rows, db.cols, db.classes)
    /\ pc = "t20" => frame = NewFrame(calls[call_no])
    /\ pc \in {"start", "main", "exit"} => frame = NoFrame
\* the script's first call has returned and its second has failed
C9_Witness ==
    /\ calls = DriverCalls
    /\ call_no = 2
    /\ pc = "crashed"
    /\ data = ArticleDB(FALSE, FALSE, db.rows, db.cols, db.classes)

\* C10: every feature line goes with one valid column index: an index of the
\* importance vector and of the column names, the name printed is the name
\* of that column and the score printed is the entry of the importance
\* vector at it, for tree and for linear estimators alike.
C10_FeatureLinesUseOneValidColumn ==
    (Running /\ frame.rank >= 0) =>
        /\ frame.feature_col.tag = "int"
        /\ frame.feature_col.value \in DOMAIN data.column_number
        /\ IsVec(frame.var_imp)
        /\ frame.feature_col.value \in DOMAIN frame.var_imp.a
        /\ frame.feature_name = data.column_number[frame.feature_col.value]
        /\ frame.feature_score = frame.var_imp.a[frame.feature_col.value]
        /\ stdout[Len(stdout)] = [kind |-> "feature", rank |-> frame.rank + 1]
\* what does hold: the same, of the iterations over an importance vector
C10_VectorFeatureLinesUseOneValidColumn ==
    (Running /\ frame.rank >= 0 /\ IsVec(frame.var_imp)) =>
        /\ frame.feature_col.tag = "int"
        /\ frame.feature_col.value \in DOMAIN data.column_number
        /\ frame.feature_col.value \in DOMAIN frame.var_imp.a
        /\ frame.feature_name = data.column_number[frame.feature_col.value]
        /\ frame.feature_score = frame.var_imp.a[frame.feature_col.value]
        /\ stdout[Len(stdout)] = [kind |-> "feature", rank |-> frame.rank + 1]

====
